---- MODULE Spec2Model ----
(***************************************************************************)
(* Model of mongo-to-sqlite: the value mapper (converter.rs), the schema   *)
(* inferrer and schema model (schema.rs) and the migration orchestrator    *)
(* (migration.rs) driving the document source and the relational sink.     *)
(***************************************************************************)
EXTENDS Integers, Sequences, FiniteSets, TLC

VARIABLES
    \* ---- Migrator::migrate arguments and Migrator fields
    mode,             \* MigrationMode
    truncate,         \* bool
    drop_tables,      \* bool
    batch_size,       \* usize
    \* ---- control state of the run
    pc,               \* position of the run
    idx,              \* index into collections of the loop in progress
    total_documents,  \* migrate_data's accumulator
    result,           \* what migrate returned
    returned,         \* what each finished migrate_collection_data returned
    \* ---- locals of migrate_schema / migrate_collection_data / insert_batch
    total_count,      \* fetched count
    schema,           \* inferred schema
    insert_sql,       \* schema.to_insert_sql()
    field_names,      \* schema.field_names()
    batch,            \* unflushed rows
    total_migrated,   \* rows flushed so far
    exhausted,        \* the cursor returned None
    row_j,            \* insert_batch_inner: index of the next row
    \* ---- the sink (LibSQL connection)
    tables,           \* the existing tables: columns and committed rows
    in_tx,            \* a transaction is open on the connection
    pending,          \* rows written inside the open transaction
    log,              \* every statement submitted to the sink, in order
    \* ---- the source (MongoDB)
    delivered,        \* per collection: documents its cursor yielded
    src_calls,        \* the calls made to the source, in order
    \* ---- application of a pure function
    fn_pc, fn_in, fn_out

cfg == <<mode, truncate, drop_tables, batch_size>>
locals == <<total_count, schema, insert_sql, field_names, batch,
            total_migrated, exhausted, row_j>>
sink == <<tables, in_tx, pending, log>>
source == <<delivered, src_calls>>
mvars == <<cfg, pc, idx, total_documents, result, returned, locals, sink, source>>
fvars == <<fn_pc, fn_in, fn_out>>
vars == <<mvars, fvars>>

-----------------------------------------------------------------------------
(* Bounds *)

MaxDocs == 4
MaxBatch == 2
MaxSample == 2
MaxCount == 3
MaxConvSample == 1
MaxNameLen == 3
MaxFields == 2
MaxPayload == 2
MaxArg == 3
MaxRepeatSample == 4

-----------------------------------------------------------------------------
(* Names are strings of bytes: tuples of code points. *)

ID == <<95, 105, 100>>          \* "_id"
AGE == <<97, 103, 101>>         \* "age"
NAME == <<110, 97, 109, 101>>   \* "name"
USERS == <<117>>                \* "u"
QUOTED == <<97, 34, 98>>        \* a"b

FieldUniverse == {ID, AGE, NAME}

\* str::cmp: lexicographic order on bytes
RECURSIVE NameLess(_, _)
NameLess(a, b) ==
    IF a = <<>> THEN b # <<>>
    ELSE IF b = <<>> THEN FALSE
    ELSE IF Head(a) # Head(b) THEN Head(a) < Head(b)
    ELSE NameLess(Tail(a), Tail(b))

\* The keys in descending order
RECURSIVE SortNamesDescending(_)
SortNamesDescending(S) ==
    IF S = {} THEN <<>>
    ELSE LET m == CHOOSE x \in S : \A y \in S \ {x} : NameLess(y, x)
         IN  <<m>> \o SortNamesDescending(S \ {m})

\* Vec<String>::sort of a set of distinct keys
RECURSIVE SortNames(_)
SortNames(S) ==
    IF S = {} THEN <<>>
    ELSE LET m == CHOOSE x \in S : \A y \in S \ {x} : NameLess(x, y)
         IN  <<m>> \o SortNames(S \ {m})

-----------------------------------------------------------------------------
(* converter.rs *)

\* A Bson value: its tag and payload. v, w stand for the payload's content
\* (w: a second component), b for a boolean payload, ok for whether
\* serde_json can serialize the payload.
Bson(tag, v) == [tag |-> tag, v |-> v, w |-> 0, b |-> FALSE, ok |-> TRUE]

BsonTags == {"Double", "String", "Document", "Array", "Binary", "ObjectId",
             "Boolean", "DateTime", "Null", "RegularExpression",
             "JavaScriptCode", "JavaScriptCodeWithScope", "Int32", "Int64",
             "Timestamp", "Decimal128", "Undefined", "MaxKey", "MinKey",
             "DbPointer", "Symbol"}

\* libsql::Value. fmt names the textual form a Text payload was rendered in.
SqlNull == [kind |-> "Null", fmt |-> "", v |-> 0, w |-> 0]
SqlInteger(i) == [kind |-> "Integer", fmt |-> "", v |-> i, w |-> 0]
SqlReal(r) == [kind |-> "Real", fmt |-> "", v |-> r, w |-> 0]
SqlText(fmt, v, w) == [kind |-> "Text", fmt |-> fmt, v |-> v, w |-> w]

\* The conversion with a failed serialization kept as an error
bson_to_sql_value_raises(bson) ==
    CASE bson.tag = "Double" -> SqlReal(bson.v)
      [] bson.tag \in {"String", "JavaScriptCode", "Symbol"} -> SqlText("", bson.v, 0)
      [] bson.tag \in {"Document", "Array", "Binary"} ->
            IF bson.ok THEN SqlText("json", bson.v, 0)
            ELSE [kind |-> "Error", fmt |-> "", v |-> 0, w |-> 0]
      [] bson.tag = "ObjectId" -> SqlText("hex", bson.v, 0)
      [] bson.tag = "Boolean" -> SqlInteger(IF bson.b THEN 1 ELSE 0)
      [] bson.tag = "DateTime" -> SqlText("rfc3339", bson.v, 0)
      [] bson.tag \in {"Null", "Undefined", "DbPointer"} -> SqlNull
      [] bson.tag = "RegularExpression" ->
            SqlText("json{pattern,options}", bson.v, bson.w)
      [] bson.tag = "JavaScriptCodeWithScope" ->
            SqlText("json{code,scope}", bson.v, bson.w)
      [] bson.tag \in {"Int32", "Int64", "Timestamp"} -> SqlInteger(bson.v)
      [] bson.tag = "Decimal128" -> SqlText("decimal", bson.v, 0)
      [] bson.tag = "MaxKey" -> SqlText("$maxKey", 0, 0)
      [] bson.tag = "MinKey" -> SqlText("$minKey", 0, 0)

bson_to_sql_value(bson) ==
    CASE bson.tag = "Double" -> SqlReal(bson.v)
      [] bson.tag = "String" -> SqlText("", bson.v, 0)
      [] bson.tag = "Document" ->
            IF bson.ok THEN SqlText("json", bson.v, 0) ELSE SqlNull
      [] bson.tag = "Array" ->
            IF bson.ok THEN SqlText("json", bson.v, 0) ELSE SqlNull
      [] bson.tag = "Binary" ->
            IF bson.ok THEN SqlText("json", bson.v, 0) ELSE SqlNull
      [] bson.tag = "ObjectId" -> SqlText("hex", bson.v, 0)
      [] bson.tag = "Boolean" -> SqlInteger(IF bson.b THEN 1 ELSE 0)
      [] bson.tag = "DateTime" -> SqlText("rfc3339", bson.v, 0)
      [] bson.tag = "Null" -> SqlNull
      [] bson.tag = "RegularExpression" ->
            SqlText("json{pattern,options}", bson.v, bson.w)
      [] bson.tag = "JavaScriptCode" -> SqlText("", bson.v, 0)
      [] bson.tag = "JavaScriptCodeWithScope" ->
            SqlText("json{code,scope}", bson.v, bson.w)
      [] bson.tag = "Int32" -> SqlInteger(bson.v)
      [] bson.tag = "Int64" -> SqlInteger(bson.v)
      [] bson.tag = "Timestamp" -> SqlInteger(bson.v)
      [] bson.tag = "Decimal128" -> SqlText("decimal", bson.v, 0)
      [] bson.tag = "Undefined" -> SqlNull
      [] bson.tag = "MaxKey" -> SqlText("$maxKey", 0, 0)
      [] bson.tag = "MinKey" -> SqlText("$minKey", 0, 0)
      [] bson.tag = "DbPointer" -> SqlNull
      [] bson.tag = "Symbol" -> SqlText("", bson.v, 0)

\* The classification with binary data taken as text
infer_sqlite_type_binary_text(bson) ==
    CASE bson.tag = "Double" -> "REAL"
      [] bson.tag \in {"Boolean", "Int32", "Int64", "Timestamp"} -> "INTEGER"
      [] bson.tag \in {"Null", "Undefined", "DbPointer"} -> "NULL"
      [] OTHER -> "TEXT"

infer_sqlite_type(bson) ==
    CASE bson.tag = "Double" -> "REAL"
      [] bson.tag \in {"String", "Document", "Array", "ObjectId", "DateTime",
                       "RegularExpression", "JavaScriptCode",
                       "JavaScriptCodeWithScope", "Decimal128", "MaxKey",
                       "MinKey", "Symbol"} -> "TEXT"
      [] bson.tag = "Binary" -> "BLOB"
      [] bson.tag \in {"Boolean", "Int32", "Int64", "Timestamp"} -> "INTEGER"
      [] bson.tag \in {"Null", "Undefined", "DbPointer"} -> "NULL"

\* A Document is a function from its keys to Bson values.
document_to_sql_values_skip(doc, names) ==
    LET present == SelectSeq(names, LAMBDA n : n \in DOMAIN doc)
    IN  [i \in 1..Len(present) |-> bson_to_sql_value(doc[present[i]])]

document_to_sql_values(doc, names) ==
    [i \in 1..Len(names) |->
        IF names[i] \in DOMAIN doc
        THEN bson_to_sql_value(doc[names[i]])
        ELSE SqlNull]

-----------------------------------------------------------------------------
(* schema.rs *)

SqlTypes == {"INTEGER", "REAL", "TEXT", "BLOB", "NULL"}

type_priority == <<"INTEGER", "REAL", "TEXT", "BLOB", "NULL">>

Field(name, sql_type, nullable, is_primary_key) ==
    [name |-> name, sql_type |-> sql_type, nullable |-> nullable,
     is_primary_key |-> is_primary_key]

\* FieldInfo::new. type_counts is a HashMap: a function on the keys present.
FieldInfoNew ==
    [type_counts |-> <<>>, presence_count |-> 0, most_common_type |-> "TEXT"]

record_value(info, value) ==
    LET t == infer_sqlite_type(value)
        tc == info.type_counts
    IN  [info EXCEPT
            !.presence_count = @ + 1,
            !.type_counts = IF t \in DOMAIN tc
                            THEN [tc EXCEPT ![t] = @ + 1]
                            ELSE tc @@ (t :> 1)]

\* The priority loop with >= for >: a tie goes to the later class.
PriorityScanLast(tc, k, acc) ==
    LET RECURSIVE Scan(_, _)
        Scan(j, a) ==
            IF j > Len(type_priority) THEN a
            ELSE LET t == type_priority[j]
                 IN  IF t \in DOMAIN tc /\ tc[t] >= a.max_count
                     THEN Scan(j + 1, [max_count |-> tc[t], most_common |-> t])
                     ELSE Scan(j + 1, a)
    IN  Scan(k, acc)

\* The loop over type_priority; acc = [max_count, most_common].
RECURSIVE PriorityScan(_, _, _)
PriorityScan(tc, k, acc) ==
    IF k > Len(type_priority) THEN acc
    ELSE LET t == type_priority[k]
         IN  IF t \in DOMAIN tc /\ tc[t] > acc.max_count
             THEN PriorityScan(tc, k + 1, [max_count |-> tc[t], most_common |-> t])
             ELSE PriorityScan(tc, k + 1, acc)

\* Iterator::max_by_key over the map in iteration order: the last maximum.
MaxByKey(tc, order) ==
    LET best == CHOOSE i \in 1..Len(order) :
                    /\ \A j \in 1..Len(order) : tc[order[j]] <= tc[order[i]]
                    /\ \A j \in (i + 1)..Len(order) : tc[order[j]] < tc[order[i]]
    IN  order[best]

\* The first non-NULL key, with a positive count, in iteration order.
FirstNonNull(tc, order, dflt) ==
    LET hits == {i \in 1..Len(order) : order[i] # "NULL" /\ tc[order[i]] > 0}
    IN  IF hits = {} THEN dflt
        ELSE order[CHOOSE i \in hits : \A j \in hits : i <= j]

\* FieldInfo::finalize. order is the iteration order of the type_counts
\* HashMap: a sequence enumerating its keys, fixed by the map's hasher.
finalize_no_override(info, order) ==
    LET tc == info.type_counts
    IN  IF DOMAIN tc = {} THEN [info EXCEPT !.most_common_type = "TEXT"]
        ELSE [info EXCEPT !.most_common_type =
                PriorityScan(tc, 1, [max_count |-> 0, most_common |-> "TEXT"]).most_common]

finalize(info, order) ==
    LET tc == info.type_counts
        scan == PriorityScan(tc, 1, [max_count |-> 0, most_common |-> "TEXT"])
        most_common1 == IF scan.max_count = 0
                        THEN MaxByKey(tc, order)
                        ELSE scan.most_common
        most_common2 == IF most_common1 = "NULL" /\ Cardinality(DOMAIN tc) > 1
                        THEN FirstNonNull(tc, order, most_common1)
                        ELSE most_common1
    IN  IF DOMAIN tc = {} THEN [info EXCEPT !.most_common_type = "TEXT"]
        ELSE [info EXCEPT !.most_common_type = most_common2]

\* The possible iteration orders of a HashMap with key set S.
RECURSIVE IterOrders(_)
IterOrders(S) ==
    IF S = {} THEN {<<>>}
    ELSE UNION {{<<x>> \o r : r \in IterOrders(S \ {x})} : x \in S}

\* SchemaInferrer::analyze_documents, before finalize: the FieldInfo of every
\* key seen. A document's keys are distinct, so the order of doc.iter() does
\* not show in the counts.
RECURSIVE RecordDoc(_, _, _)
RecordDoc(field_info, doc, keys) ==
    IF keys = {} THEN field_info
    ELSE LET key == CHOOSE k \in keys : TRUE
             info == IF key \in DOMAIN field_info
                     THEN field_info[key] ELSE FieldInfoNew
             upd == record_value(info, doc[key])
         IN  RecordDoc([k \in DOMAIN field_info \cup {key} |->
                            IF k = key THEN upd ELSE field_info[k]],
                       doc, keys \ {key})

\* The same loop with the order of doc.iter() given: iter enumerates the
\* document's keys.
RECURSIVE RecordDocIter(_, _, _)
RecordDocIter(field_info, doc, iter) ==
    IF iter = <<>> THEN field_info
    ELSE LET key == Head(iter)
             info == IF key \in DOMAIN field_info
                     THEN field_info[key] ELSE FieldInfoNew
             upd == record_value(info, doc[key])
         IN  RecordDocIter([k \in DOMAIN field_info \cup {key} |->
                               IF k = key THEN upd ELSE field_info[k]],
                           doc, Tail(iter))

RECURSIVE RecordDocs(_, _)
RecordDocs(field_info, documents) ==
    IF documents = <<>> THEN field_info
    ELSE RecordDocs(RecordDoc(field_info, Head(documents), DOMAIN Head(documents)),
                    Tail(documents))

\* The iteration orders of the type_counts maps of a sample: one per key.
RECURSIVE OrdersFor(_, _)
OrdersFor(field_info, keys) ==
    IF keys = {} THEN {<<>>}
    ELSE LET key == CHOOSE k \in keys : TRUE
         IN  {[k \in keys |-> IF k = key THEN o ELSE r[k]] :
                r \in OrdersFor(field_info, keys \ {key}),
                o \in IterOrders(DOMAIN field_info[key].type_counts)}

HashOrders(documents) ==
    LET field_info == RecordDocs(<<>>, documents)
    IN  OrdersFor(field_info, DOMAIN field_info)

analyze_documents(documents, ord) ==
    LET field_info == RecordDocs(<<>>, documents)
    IN  [k \in DOMAIN field_info |-> finalize(field_info[k], ord[k])]

\* A schema with no column at all
create_empty_schema_none(collection_name) ==
    [collection_name |-> collection_name, fields |-> <<>>]

create_empty_schema(collection_name) ==
    [collection_name |-> collection_name,
     fields |-> <<Field(ID, "TEXT", FALSE, TRUE)>>]

\* infer_schema with nullable decided by presence: a field seen in every
\* sampled document is NOT NULL.
infer_schema_by_presence(collection_name, documents, ord) ==
    IF documents = <<>> THEN create_empty_schema(collection_name)
    ELSE LET field_info == analyze_documents(documents, ord)
             id_field == IF ID \in DOMAIN field_info
                         THEN <<Field(ID, field_info[ID].most_common_type, FALSE, TRUE)>>
                         ELSE <<>>
             rest == SortNames(DOMAIN field_info \ {ID})
         IN  [collection_name |-> collection_name,
              fields |-> id_field \o
                         [i \in 1..Len(rest) |->
                            Field(rest[i], field_info[rest[i]].most_common_type,
                                  field_info[rest[i]].presence_count < Len(documents),
                                  FALSE)]]

\* SchemaInferrer::infer_schema. ord gives, per key, the iteration order of
\* that key's type_counts map.
infer_schema(collection_name, documents, ord) ==
    IF documents = <<>> THEN create_empty_schema(collection_name)
    ELSE LET field_info == analyze_documents(documents, ord)
             id_field == IF ID \in DOMAIN field_info
                         THEN <<Field(ID, field_info[ID].most_common_type, FALSE, TRUE)>>
                         ELSE <<>>
             rest == SortNames(DOMAIN field_info \ {ID})
         IN  [collection_name |-> collection_name,
              fields |-> id_field \o
                         [i \in 1..Len(rest) |->
                            Field(rest[i], field_info[rest[i]].most_common_type,
                                  TRUE, FALSE)]]

\* CollectionSchema::field_names
schema_field_names(self) ==
    [i \in 1..Len(self.fields) |-> self.fields[i].name]

-----------------------------------------------------------------------------
(* Inputs of the pure functions *)

Seqs(S, n) == UNION {[1..k -> S] : k \in 0..n}

Opt(key, S) == IF S = {} THEN <<>> ELSE (key :> CHOOSE x \in S : TRUE)

IdOpts == {{}, {Bson("String", 1)}, {Bson("Int32", 1)}}
AgeOpts == {{}, {Bson("Int32", 30)}, {Bson("Double", 2)}, {Bson("Null", 0)}}
NameOpts == {{}, {Bson("String", 10)}, {Bson("Null", 0)}}

\* Documents over the keys _id, age, name
InferDocs ==
    {Opt(ID, i) @@ Opt(AGE, a) @@ Opt(NAME, n) :
        i \in IdOpts, a \in AgeOpts, n \in NameOpts}

\* No run in progress
NoResult == [kind |-> "none", n |-> 0]
NoSchema == [collection_name |-> <<>>, fields |-> <<>>]
NoStatement == [op |-> "", table |-> <<>>, columns |-> <<>>, defs |-> <<>>,
                placeholders |-> 0]

Idle == /\ mode = "Full" /\ truncate = FALSE /\ drop_tables = FALSE
        /\ batch_size = 1 /\ pc = "idle" /\ idx = 1 /\ total_documents = 0
        /\ result = NoResult /\ returned = <<>>
        /\ total_count = 0 /\ schema = NoSchema /\ insert_sql = NoStatement
        /\ field_names = <<>> /\ batch = <<>> /\ total_migrated = 0
        /\ exhausted = FALSE /\ row_j = 1
        /\ tables = <<>> /\ in_tx = FALSE /\ pending = <<>> /\ log = <<>>
        /\ delivered = <<>> /\ src_calls = <<>>

SchemasOf(samples) ==
    UNION {{infer_schema(USERS, s, o) : o \in HashOrders(s)} : s \in samples}

(* document_to_sql_values applied to a document and a schema's field names *)
InitConv ==
    /\ Idle
    /\ fn_pc = "ready"
    /\ fn_in \in {[doc |-> d, schema |-> sc] :
                    d \in InferDocs,
                    sc \in SchemasOf(Seqs(InferDocs, MaxConvSample))}
    /\ fn_out = <<>>

ApplyConv ==
    /\ fn_pc = "ready"
    /\ fn_out' = document_to_sql_values(fn_in.doc, schema_field_names(fn_in.schema))
    /\ fn_pc' = "done"
    /\ UNCHANGED <<fn_in, mvars>>

SpecConv == InitConv /\ [][ApplyConv]_vars

(* infer_schema applied to a sample *)
\* The documents samples are made of: with a string _id, every shape of age
\* and a string name or none; with an integer _id or none, an integer age
\* or none.
SchemaDocs ==
    {d \in InferDocs :
        /\ NAME \in DOMAIN d => d[NAME].tag = "String"
        /\ (ID \notin DOMAIN d \/ d[ID].tag = "Int32") =>
              /\ NAME \notin DOMAIN d
              /\ AGE \in DOMAIN d => d[AGE].tag = "Int32"}

InitSchema ==
    /\ Idle
    /\ fn_pc = "ready"
    /\ \E s \in Seqs(SchemaDocs, MaxSample) : \E o \in HashOrders(s) :
         fn_in = [documents |-> s, ord |-> o]
    /\ fn_out = <<>>

ApplyInfer ==
    /\ fn_pc = "ready"
    /\ fn_out' = infer_schema(USERS, fn_in.documents, fn_in.ord)
    /\ fn_pc' = "done"
    /\ UNCHANGED <<fn_in, mvars>>

SpecSchema == InitSchema /\ [][ApplyInfer]_vars

(* infer_schema invoked twice on one sample *)
\* Documents with a string _id and an integer, real, null or absent age
RepeatDocs ==
    {Opt(ID, {Bson("String", 1)}) @@ Opt(AGE, a) : a \in AgeOpts}

\* Each invocation builds its own type_counts maps, whose iteration orders
\* need not agree
InitRepeat ==
    /\ Idle
    /\ fn_pc = "ready"
    /\ \E s \in Seqs(RepeatDocs, MaxRepeatSample) :
         \E o1 \in HashOrders(s) : \E o2 \in HashOrders(s) :
           fn_in = [documents |-> s, ord |-> o1, ord2 |-> o2]
    /\ fn_out = <<>>

ApplyInferTwice ==
    /\ fn_pc = "ready"
    /\ fn_out' = [first |-> infer_schema(USERS, fn_in.documents, fn_in.ord),
                  second |-> infer_schema(USERS, fn_in.documents, fn_in.ord2)]
    /\ fn_pc' = "done"
    /\ UNCHANGED <<fn_in, mvars>>

SpecRepeat == InitRepeat /\ [][ApplyInferTwice]_vars

(* FieldInfo::finalize applied to the counts recorded for one field *)
TypeCounts ==
    UNION {[S -> 1..MaxCount] : S \in SUBSET SqlTypes}

Sum(tc) ==
    LET RECURSIVE Add(_)
        Add(S) == IF S = {} THEN 0
                  ELSE LET t == CHOOSE x \in S : TRUE IN tc[t] + Add(S \ {t})
    IN  Add(DOMAIN tc)

InitFinalize ==
    /\ Idle
    /\ fn_pc = "ready"
    /\ \E tc \in TypeCounts : \E o \in IterOrders(DOMAIN tc) :
         fn_in = [info |-> [type_counts |-> tc, presence_count |-> Sum(tc),
                            most_common_type |-> "TEXT"],
                  order |-> o]
    /\ fn_out = <<>>

ApplyFinalize ==
    /\ fn_pc = "ready"
    /\ fn_out' = finalize(fn_in.info, fn_in.order)
    /\ fn_pc' = "done"
    /\ UNCHANGED <<fn_in, mvars>>

SpecFinalize == InitFinalize /\ [][ApplyFinalize]_vars

-----------------------------------------------------------------------------
(* SQL text. A statement is kept as its parts: the verb, the quoted table  *)
(* name, the quoted column names, the column definitions, the number of    *)
(* placeholders.                                                           *)

\* The name left as it is
DoubleQuotesNone(str) == str

\* str::replace('"', "\"\"")
RECURSIVE DoubleQuotes(_)
DoubleQuotes(str) ==
    IF str = <<>> THEN <<>>
    ELSE (IF Head(str) = 34 THEN <<34, 34>> ELSE <<Head(str)>>)
         \o DoubleQuotes(Tail(str))

\* converter.rs escape_identifier
escape_identifier(identifier) == <<34>> \o DoubleQuotes(identifier) \o <<34>>

\* NOT NULL on every non-nullable column, the primary key too
to_create_table_sql_not_null_key(self) ==
    [op |-> "CREATE TABLE IF NOT EXISTS",
     table |-> escape_identifier(self.collection_name),
     columns |-> [i \in 1..Len(self.fields) |-> escape_identifier(self.fields[i].name)],
     defs |-> [i \in 1..Len(self.fields) |->
                 <<self.fields[i].sql_type>>
                 \o (IF self.fields[i].is_primary_key
                     THEN <<"PRIMARY KEY">> ELSE <<>>)
                 \o (IF ~self.fields[i].nullable
                     THEN <<"NOT NULL">> ELSE <<>>)],
     placeholders |-> 0]

\* CollectionSchema::to_create_table_sql
to_create_table_sql(self) ==
    [op |-> "CREATE TABLE IF NOT EXISTS",
     table |-> escape_identifier(self.collection_name),
     columns |-> [i \in 1..Len(self.fields) |-> escape_identifier(self.fields[i].name)],
     defs |-> [i \in 1..Len(self.fields) |->
                 <<self.fields[i].sql_type>>
                 \o (IF self.fields[i].is_primary_key
                     THEN <<"PRIMARY KEY">> ELSE <<>>)
                 \o (IF ~self.fields[i].nullable /\ ~self.fields[i].is_primary_key
                     THEN <<"NOT NULL">> ELSE <<>>)],
     placeholders |-> 0]

\* The column list written from the last field to the first
to_insert_sql_reversed(self) ==
    [op |-> "INSERT INTO",
     table |-> escape_identifier(self.collection_name),
     columns |-> [i \in 1..Len(self.fields) |->
                    escape_identifier(self.fields[Len(self.fields) + 1 - i].name)],
     defs |-> <<>>,
     placeholders |-> Len(self.fields)]

\* CollectionSchema::to_insert_sql
to_insert_sql(self) ==
    [op |-> "INSERT INTO",
     table |-> escape_identifier(self.collection_name),
     columns |-> [i \in 1..Len(self.fields) |-> escape_identifier(self.fields[i].name)],
     defs |-> <<>>,
     placeholders |-> Len(self.fields)]

\* Migrator::drop_tables, the statement
drop_table_sql(collection_name) ==
    [NoStatement EXCEPT !.op = "DROP TABLE IF EXISTS",
                        !.table = <<34>> \o DoubleQuotes(collection_name) \o <<34>>]

\* Migrator::truncate_tables, the statement
delete_from_sql(collection_name) ==
    [NoStatement EXCEPT !.op = "DELETE FROM",
                        !.table = <<34>> \o DoubleQuotes(collection_name) \o <<34>>]

Verb(op) == [NoStatement EXCEPT !.op = op]

(* infer_sqlite_type and bson_to_sql_value applied to a value *)
\* Values of every tag: payload v (for a Timestamp its time, w its
\* increment), boolean payload b, and whether serde_json can serialize it
BsonValues ==
    [tag : BsonTags, v : 0..MaxPayload, w : {0, 1}, b : BOOLEAN, ok : BOOLEAN]

InitBson ==
    /\ Idle
    /\ fn_pc = "ready"
    /\ fn_in \in BsonValues
    /\ fn_out = <<>>

ApplyBson ==
    /\ fn_pc = "ready"
    /\ fn_out' = [sql_type |-> infer_sqlite_type(fn_in),
                  value |-> bson_to_sql_value(fn_in)]
    /\ fn_pc' = "done"
    /\ UNCHANGED <<fn_in, mvars>>

SpecBson == InitBson /\ [][ApplyBson]_vars

(* to_insert_sql, to_create_table_sql and field_names applied to a schema *)
\* Any CollectionSchema value, inferred or built by hand
AnyFields ==
    [name : {ID, AGE, QUOTED}, sql_type : {"TEXT", "INTEGER"},
     nullable : BOOLEAN, is_primary_key : BOOLEAN]

InitSql ==
    /\ Idle
    /\ fn_pc = "ready"
    /\ fn_in \in [collection_name : {USERS, QUOTED}, fields : Seqs(AnyFields, MaxFields)]
    /\ fn_out = <<>>

ApplySql ==
    /\ fn_pc = "ready"
    /\ fn_out' = [insert |-> to_insert_sql(fn_in),
                  create |-> to_create_table_sql(fn_in),
                  field_names |-> schema_field_names(fn_in)]
    /\ fn_pc' = "done"
    /\ UNCHANGED <<fn_in, mvars>>

SpecSql == InitSql /\ [][ApplySql]_vars

(* The four statements built for a table name and a column name *)
\* Names over the bytes a, b and the double quote
QuoteNames == Seqs({97, 98, 34}, MaxNameLen)

InitQuote ==
    /\ Idle
    /\ fn_pc = "ready"
    /\ fn_in \in [table : QuoteNames, column : QuoteNames]
    /\ fn_out = <<>>

ApplyQuote ==
    /\ fn_pc = "ready"
    /\ LET self == [collection_name |-> fn_in.table,
                    fields |-> <<Field(fn_in.column, "TEXT", TRUE, FALSE)>>]
       IN  fn_out' = [escaped |-> escape_identifier(fn_in.table),
                      drop |-> drop_table_sql(fn_in.table),
                      delete |-> delete_from_sql(fn_in.table),
                      create |-> to_create_table_sql(self),
                      insert |-> to_insert_sql(self)]
    /\ fn_pc' = "done"
    /\ UNCHANGED <<fn_in, mvars>>

SpecQuote == InitQuote /\ [][ApplyQuote]_vars

-----------------------------------------------------------------------------
(* The sink: what the connection does with a statement.                    *)

Range(f) == {f[i] : i \in DOMAIN f}

\* The rows of a committed transaction reach their tables.
RECURSIVE ApplyPending(_, _)
ApplyPending(tbls, rows) ==
    IF rows = <<>> THEN tbls
    ELSE LET r == Head(rows)
         IN  ApplyPending(
                IF r.table \in DOMAIN tbls
                THEN [tbls EXCEPT ![r.table].rows = Append(@, r.row)]
                ELSE tbls,
                Tail(rows))

\* Whether the sink can accept the statement in its present state.
CanSucceed(stmt, params) ==
    CASE stmt.op = "DELETE FROM" -> stmt.table \in DOMAIN tables
      [] stmt.op = "BEGIN TRANSACTION" -> ~in_tx
      [] stmt.op = "COMMIT" -> in_tx
      [] stmt.op = "ROLLBACK" -> in_tx
      [] stmt.op = "INSERT INTO" ->
            /\ stmt.table \in DOMAIN tables
            /\ Range(stmt.columns) \subseteq Range(tables[stmt.table].columns)
            /\ stmt.placeholders = Len(params)
      [] OTHER -> TRUE

\* The outcomes Connection::execute can have: Ok (TRUE) or Err (FALSE).
Outcomes(stmt, params) ==
    IF CanSucceed(stmt, params) THEN {TRUE, FALSE} ELSE {FALSE}

\* LibSqlClient::execute / execute_with_params with outcome ok, issued while
\* working on collection coll. A failed statement changes nothing.
Execute(stmt, params, ok, coll) ==
    /\ log' = Append(log, [stmt |-> stmt, params |-> params, ok |-> ok, coll |-> coll])
    /\ IF ~ok THEN UNCHANGED <<tables, in_tx, pending>>
       ELSE CASE stmt.op = "DROP TABLE IF EXISTS" ->
                    /\ tables' = [t \in DOMAIN tables \ {stmt.table} |-> tables[t]]
                    /\ UNCHANGED <<in_tx, pending>>
              [] stmt.op = "CREATE TABLE IF NOT EXISTS" ->
                    /\ tables' = IF stmt.table \in DOMAIN tables THEN tables
                                 ELSE [t \in DOMAIN tables \cup {stmt.table} |->
                                         IF t = stmt.table
                                         THEN [columns |-> stmt.columns, rows |-> <<>>]
                                         ELSE tables[t]]
                    /\ UNCHANGED <<in_tx, pending>>
              [] stmt.op = "DELETE FROM" ->
                    /\ tables' = [tables EXCEPT ![stmt.table].rows = <<>>]
                    /\ UNCHANGED <<in_tx, pending>>
              [] stmt.op = "BEGIN TRANSACTION" ->
                    /\ in_tx' = TRUE
                    /\ pending' = <<>>
                    /\ UNCHANGED tables
              [] stmt.op = "INSERT INTO" ->
                    LET r == [table |-> stmt.table,
                              row |-> [columns |-> stmt.columns, values |-> params]]
                    IN  IF in_tx
                        THEN /\ pending' = Append(pending, r)
                             /\ UNCHANGED <<tables, in_tx>>
                        ELSE /\ tables' = ApplyPending(tables, <<r>>)
                             /\ UNCHANGED <<in_tx, pending>>
              [] stmt.op = "COMMIT" ->
                    /\ tables' = ApplyPending(tables, pending)
                    /\ in_tx' = FALSE
                    /\ pending' = <<>>
              [] stmt.op = "ROLLBACK" ->
                    /\ in_tx' = FALSE
                    /\ pending' = <<>>
                    /\ UNCHANGED tables

-----------------------------------------------------------------------------
(* The source: what the MongoDB client returns.                            *)

Collections == <<USERS, QUOTED>>

NumCollections == Len(Collections)

\* A call to the source, made for collection coll, and whether it returned Ok
Called(op, coll, ok) == Append(src_calls, [op |-> op, coll |-> coll, ok |-> ok])

\* The k-th document a collection's cursor yields
DocAt(k) ==
    IF k % 2 = 1
    THEN (ID :> Bson("String", k)) @@ (NAME :> Bson("String", 10 + k))
         @@ (AGE :> Bson("Int32", 30))
    ELSE (ID :> Bson("String", k)) @@ (NAME :> Bson("String", 10 + k))

RECURSIVE Ascending(_)
Ascending(S) ==
    IF S = {} THEN <<>>
    ELSE LET m == CHOOSE x \in S : \A y \in S : x <= y
         IN  <<m>> \o Ascending(S \ {m})

\* The results sample_documents can return: at most sample_size documents
\* of the collection.
Samples ==
    {[i \in 1..Cardinality(S) |-> DocAt(Ascending(S)[i])] :
        S \in {T \in SUBSET (1..MaxDocs) : Cardinality(T) <= MaxSample}}

\* The schemas infer_schema can return for collection c on those samples
InferredSchemas(c) ==
    UNION {{infer_schema(c, s, o) : o \in HashOrders(s)} : s \in Samples}

\* The results count_documents can return: none, or a number that the
\* cursor may fall short of, meet or exceed.
Counts == {0, MaxDocs - 1}

\* A table that was in the sink before the run
OldTable ==
    [columns |-> <<escape_identifier(ID), escape_identifier(AGE), escape_identifier(NAME)>>,
     rows |-> <<[columns |-> <<escape_identifier(ID)>>, values |-> <<SqlText("", 0, 0)>>]>>]

-----------------------------------------------------------------------------
(* migration.rs: one run of Migrator::migrate                              *)

Modes == {"Full", "SchemaOnly", "DataOnly"}

Ok(n) == [kind |-> "Ok", n |-> n]
Err == [kind |-> "Err", n |-> 0]

Init ==
    /\ mode \in Modes
    /\ truncate \in BOOLEAN
    /\ drop_tables \in BOOLEAN
    /\ batch_size \in 1..MaxBatch
    /\ pc = "migrate"
    /\ idx = 1
    /\ total_documents = 0
    /\ result = NoResult
    /\ returned = <<>>
    /\ total_count = 0 /\ schema = NoSchema /\ insert_sql = NoStatement
    /\ field_names = <<>> /\ batch = <<>> /\ total_migrated = 0
    /\ exhausted = FALSE /\ row_j = 1
    /\ tables = [t \in {escape_identifier(Collections[i]) : i \in 1..NumCollections}
                   |-> OldTable]
    /\ in_tx = FALSE /\ pending = <<>> /\ log = <<>>
    /\ delivered = [i \in 1..NumCollections |-> <<>>]
    /\ src_calls = <<>>
    /\ fn_pc = "idle" /\ fn_in = <<>> /\ fn_out = <<>>

\* The destructive blocks guarded by their flag alone.
PhaseOnFlagOnly(p) ==
    CASE p = 1 -> drop_tables
      [] p = 2 -> mode = "Full" \/ mode = "SchemaOnly"
      [] p = 3 -> truncate
      [] p = 4 -> mode = "Full" \/ mode = "DataOnly"
      [] OTHER -> FALSE

\* The conditions of the four if-blocks of migrate: drop, schema, truncate,
\* data.
PhaseOn(p) ==
    CASE p = 1 -> drop_tables /\ (mode = "Full" \/ mode = "SchemaOnly")
      [] p = 2 -> mode = "Full" \/ mode = "SchemaOnly"
      [] p = 3 -> truncate /\ mode = "DataOnly"
      [] p = 4 -> mode = "Full" \/ mode = "DataOnly"
      [] OTHER -> FALSE

PhaseEntry == <<"drop_tables", "migrate_schema", "truncate_tables", "count_documents">>

\* The four if-blocks in another order: the schema before the drop.
PhaseOrderSchemaFirst == <<2, 1, 3, 4>>

\* The order of the four if-blocks in migrate
PhaseOrder == <<1, 2, 3, 4>>

\* Control after phase p (0: at entry) has returned Ok: the next block whose
\* condition holds, or `Ok(total_documents)`.
AfterPhase(p) ==
    LET at == IF p = 0 THEN 0 ELSE CHOOSE k \in 1..4 : PhaseOrder[k] = p
        later == {k \in (at + 1)..4 : PhaseOn(PhaseOrder[k])}
    IN  IF later = {}
        THEN /\ pc' = "done"
             /\ result' = Ok(total_documents')
             /\ idx' = 1
        ELSE /\ pc' = PhaseEntry[PhaseOrder[CHOOSE k \in later : \A r \in later : k <= r]]
             /\ result' = result
             /\ idx' = 1

\* An error propagated by `?` up to migrate's caller.
Fail ==
    /\ pc' = "done"
    /\ result' = Err
    /\ UNCHANGED <<idx, total_documents, returned>>

Migrate ==
    /\ pc = "migrate"
    /\ AfterPhase(0)
    /\ UNCHANGED <<cfg, total_documents, returned, locals, sink, source, fvars>>

\* drop_tables with `?` on the statement: a failed drop ends the run.
DropTableAborts ==
    /\ pc = "drop_tables"
    /\ LET stmt == drop_table_sql(Collections[idx])
       IN  \E ok \in Outcomes(stmt, <<>>) :
             /\ Execute(stmt, <<>>, ok, idx)
             /\ IF ~ok THEN Fail
                ELSE /\ UNCHANGED <<total_documents, returned>>
                     /\ IF idx < NumCollections
                        THEN /\ idx' = idx + 1
                             /\ UNCHANGED <<pc, result>>
                        ELSE AfterPhase(1)
    /\ UNCHANGED <<cfg, locals, source, fvars>>

\* One iteration of the loop of drop_tables
DropTable ==
    /\ pc = "drop_tables"
    /\ LET stmt == drop_table_sql(Collections[idx])
       IN  \E ok \in Outcomes(stmt, <<>>) : Execute(stmt, <<>>, ok, idx)
    /\ IF idx < NumCollections
       THEN /\ idx' = idx + 1
            /\ UNCHANGED <<pc, result>>
       ELSE AfterPhase(1)
    /\ UNCHANGED <<cfg, total_documents, returned, locals, source, fvars>>

\* One iteration of the loop of truncate_tables
TruncateTable ==
    /\ pc = "truncate_tables"
    /\ LET stmt == delete_from_sql(Collections[idx])
       IN  \E ok \in Outcomes(stmt, <<>>) : Execute(stmt, <<>>, ok, idx)
    /\ IF idx < NumCollections
       THEN /\ idx' = idx + 1
            /\ UNCHANGED <<pc, result>>
       ELSE AfterPhase(3)
    /\ UNCHANGED <<cfg, total_documents, returned, locals, source, fvars>>

\* migrate_schema up to the inferred schema: sample_documents, infer_schema
MigrateSchemaSample ==
    /\ pc = "migrate_schema"
    /\ \/ /\ Fail
          /\ src_calls' = Called("sample_documents", idx, FALSE)
          /\ UNCHANGED schema
       \/ /\ schema' \in InferredSchemas(Collections[idx])
          /\ src_calls' = Called("sample_documents", idx, TRUE)
          /\ pc' = "create_table"
          /\ UNCHANGED <<idx, result, total_documents, returned>>
    /\ UNCHANGED <<cfg, total_count, insert_sql, field_names, batch,
                   total_migrated, exhausted, row_j, sink, delivered, fvars>>

\* The schema phase going on after a failed CREATE TABLE
MigrateSchemaCreateSwallows ==
    /\ pc = "create_table"
    /\ LET stmt == to_create_table_sql(schema)
       IN  \E ok \in Outcomes(stmt, <<>>) :
             /\ Execute(stmt, <<>>, ok, idx)
             /\ UNCHANGED <<total_documents, returned>>
             /\ IF idx < NumCollections
                THEN /\ idx' = idx + 1
                     /\ pc' = "migrate_schema"
                     /\ UNCHANGED result
                ELSE AfterPhase(2)
    /\ UNCHANGED <<cfg, locals, source, fvars>>

\* migrate_schema from the CREATE TABLE statement on, and the step of the
\* loop of migrate_schemas
MigrateSchemaCreate ==
    /\ pc = "create_table"
    /\ LET stmt == to_create_table_sql(schema)
       IN  \E ok \in Outcomes(stmt, <<>>) :
             /\ Execute(stmt, <<>>, ok, idx)
             /\ IF ~ok THEN Fail
                ELSE /\ UNCHANGED <<total_documents, returned>>
                     /\ IF idx < NumCollections
                        THEN /\ idx' = idx + 1
                             /\ pc' = "migrate_schema"
                             /\ UNCHANGED result
                        ELSE AfterPhase(2)
    /\ UNCHANGED <<cfg, locals, source, fvars>>

\* migrate_data keeping the last collection's count instead of the sum
FinishCollectionOverwrites(n, warned) ==
    /\ returned' = Append(returned, [n |-> n, warned |-> warned])
    /\ total_documents' = n
    /\ IF idx < NumCollections
       THEN /\ idx' = idx + 1
            /\ pc' = "count_documents"
            /\ UNCHANGED result
       ELSE AfterPhase(4)
    /\ total_count' = 0 /\ schema' = NoSchema /\ insert_sql' = NoStatement
    /\ field_names' = <<>> /\ batch' = <<>> /\ total_migrated' = 0
    /\ exhausted' = FALSE /\ row_j' = 1

\* migrate_collection_data returning an error on a count mismatch
FinishCollectionStrict(n, warned) ==
    /\ IF warned
       THEN Fail
       ELSE /\ returned' = Append(returned, [n |-> n, warned |-> warned])
            /\ total_documents' = total_documents + n
            /\ IF idx < NumCollections
               THEN /\ idx' = idx + 1
                    /\ pc' = "count_documents"
                    /\ UNCHANGED result
               ELSE AfterPhase(4)
    /\ total_count' = 0 /\ schema' = NoSchema /\ insert_sql' = NoStatement
    /\ field_names' = <<>> /\ batch' = <<>> /\ total_migrated' = 0
    /\ exhausted' = FALSE /\ row_j' = 1

\* migrate_collection_data returns Ok(n); migrate_data adds it up and goes
\* on with the next collection. warned: the count mismatch was logged.
FinishCollection(n, warned) ==
    /\ returned' = Append(returned, [n |-> n, warned |-> warned])
    /\ total_documents' = total_documents + n
    /\ IF idx < NumCollections
       THEN /\ idx' = idx + 1
            /\ pc' = "count_documents"
            /\ UNCHANGED result
       ELSE AfterPhase(4)
    /\ total_count' = 0 /\ schema' = NoSchema /\ insert_sql' = NoStatement
    /\ field_names' = <<>> /\ batch' = <<>> /\ total_migrated' = 0
    /\ exhausted' = FALSE /\ row_j' = 1

\* count_documents without the zero-count return
CountDocumentsNoZeroReturn ==
    /\ pc = "count_documents"
    /\ \/ /\ Fail
          /\ src_calls' = Called("count_documents", idx, FALSE)
          /\ UNCHANGED locals
       \/ \E n \in Counts :
            /\ src_calls' = Called("count_documents", idx, TRUE)
            /\ total_count' = n
            /\ pc' = "sample_documents"
            /\ UNCHANGED <<idx, result, total_documents, returned, schema,
                           insert_sql, field_names, batch, total_migrated,
                           exhausted, row_j>>
    /\ UNCHANGED <<cfg, sink, delivered, fvars>>

\* migrate_collection_data: count_documents and the zero-count return
CountDocuments ==
    /\ pc = "count_documents"
    /\ \/ /\ Fail
          /\ src_calls' = Called("count_documents", idx, FALSE)
          /\ UNCHANGED locals
       \/ \E n \in Counts :
            /\ src_calls' = Called("count_documents", idx, TRUE)
            /\ IF n = 0 THEN FinishCollection(0, FALSE)
               ELSE
                 /\ total_count' = n
                 /\ pc' = "sample_documents"
                 /\ UNCHANGED <<idx, result, total_documents, returned, schema,
                                insert_sql, field_names, batch, total_migrated,
                                exhausted, row_j>>
    /\ UNCHANGED <<cfg, sink, delivered, fvars>>

\* migrate_collection_data: sample_documents, infer_schema, to_insert_sql,
\* field_names
SampleDocuments ==
    /\ pc = "sample_documents"
    /\ \/ /\ Fail
          /\ src_calls' = Called("sample_documents", idx, FALSE)
          /\ UNCHANGED <<schema, insert_sql, field_names>>
       \/ \E sc \in InferredSchemas(Collections[idx]) :
            /\ src_calls' = Called("sample_documents", idx, TRUE)
            /\ schema' = sc
            /\ insert_sql' = to_insert_sql(sc)
            /\ field_names' = schema_field_names(sc)
            /\ pc' = "stream_documents"
            /\ UNCHANGED <<idx, result, total_documents, returned>>
    /\ UNCHANGED <<cfg, total_count, batch, total_migrated, exhausted, row_j,
                   sink, delivered, fvars>>

\* migrate_collection_data: stream_documents and the two accumulators
StreamDocuments ==
    /\ pc = "stream_documents"
    /\ \/ /\ Fail
          /\ src_calls' = Called("stream_documents", idx, FALSE)
          /\ UNCHANGED <<batch, total_migrated>>
       \/ /\ src_calls' = Called("stream_documents", idx, TRUE)
          /\ batch' = <<>>
          /\ total_migrated' = 0
          /\ pc' = "try_next"
          /\ UNCHANGED <<idx, result, total_documents, returned>>
    /\ UNCHANGED <<cfg, total_count, schema, insert_sql, field_names, exhausted,
                   row_j, sink, delivered, fvars>>

\* `batch.len() > self.batch_size`: one row too late
BatchFullLate(len) == len > batch_size

\* `batch.len() >= self.batch_size`
BatchFull(len) == len >= batch_size

\* The loop flushing the accumulated rows when the cursor fails
TryNextFlushesOnError ==
    /\ pc = "try_next"
    /\ \/ /\ src_calls' = Called("try_next", idx, FALSE)
          /\ IF batch # <<>>
             THEN /\ exhausted' = TRUE
                  /\ pc' = "insert_batch"
                  /\ UNCHANGED <<idx, result, total_documents, returned,
                                 total_count, schema, insert_sql, field_names,
                                 batch, total_migrated, row_j>>
             ELSE Fail /\ UNCHANGED locals
          /\ UNCHANGED delivered
       \/ /\ Len(delivered[idx]) < MaxDocs
          /\ src_calls' = Called("try_next", idx, TRUE)
          /\ LET doc == DocAt(Len(delivered[idx]) + 1)
                 values == document_to_sql_values(doc, field_names)
             IN  /\ delivered' = [delivered EXCEPT ![idx] = Append(@, doc)]
                 /\ batch' = Append(batch, values)
                 /\ pc' = IF BatchFull(Len(batch) + 1)
                          THEN "insert_batch" ELSE "try_next"
          /\ UNCHANGED <<idx, result, total_documents, returned, total_count,
                         schema, insert_sql, field_names, total_migrated,
                         exhausted, row_j>>
       \/ /\ src_calls' = Called("try_next", idx, TRUE)
          /\ IF batch # <<>>
             THEN /\ exhausted' = TRUE
                  /\ pc' = "insert_batch"
                  /\ UNCHANGED <<idx, result, total_documents, returned,
                                 total_count, schema, insert_sql, field_names,
                                 batch, total_migrated, row_j>>
             ELSE FinishCollection(total_migrated, total_migrated # total_count)
          /\ UNCHANGED delivered
    /\ UNCHANGED <<cfg, sink, fvars>>

\* The loop head `while let Some(doc) = cursor.try_next().await?`, the push
\* of the converted row, and the test of the batch length; on None the test
\* for a trailing batch and the end of migrate_collection_data.
TryNext ==
    /\ pc = "try_next"
    /\ \/ /\ Fail
          /\ src_calls' = Called("try_next", idx, FALSE)
          /\ UNCHANGED <<locals, delivered>>
       \/ /\ Len(delivered[idx]) < MaxDocs
          /\ src_calls' = Called("try_next", idx, TRUE)
          /\ LET doc == DocAt(Len(delivered[idx]) + 1)
                 values == document_to_sql_values(doc, field_names)
             IN  /\ delivered' = [delivered EXCEPT ![idx] = Append(@, doc)]
                 /\ batch' = Append(batch, values)
                 /\ pc' = IF BatchFull(Len(batch) + 1)
                          THEN "insert_batch" ELSE "try_next"
          /\ UNCHANGED <<idx, result, total_documents, returned, total_count,
                         schema, insert_sql, field_names, total_migrated,
                         exhausted, row_j>>
       \/ /\ src_calls' = Called("try_next", idx, TRUE)
          /\ IF batch # <<>>
             THEN /\ exhausted' = TRUE
                  /\ pc' = "insert_batch"
                  /\ UNCHANGED <<idx, result, total_documents, returned,
                                 total_count, schema, insert_sql, field_names,
                                 batch, total_migrated, row_j>>
             ELSE FinishCollection(total_migrated, total_migrated # total_count)
          /\ UNCHANGED delivered
    /\ UNCHANGED <<cfg, sink, fvars>>

\* The caller without batch.clear()
AfterInsertBatchKeeps ==
    IF ~exhausted
    THEN /\ total_migrated' = total_migrated + Len(batch)
         /\ batch' = batch
         /\ pc' = "try_next"
         /\ UNCHANGED <<idx, result, total_documents, returned, total_count,
                        schema, insert_sql, field_names, exhausted, row_j>>
    ELSE FinishCollection(total_migrated + Len(batch),
                          total_migrated + Len(batch) # total_count)

\* insert_batch returned Ok(()): the caller adds batch.len() and either
\* clears the batch and loops or, after the trailing batch, returns.
AfterInsertBatch ==
    IF ~exhausted
    THEN /\ total_migrated' = total_migrated + Len(batch)
         /\ batch' = <<>>
         /\ pc' = "try_next"
         /\ UNCHANGED <<idx, result, total_documents, returned, total_count,
                        schema, insert_sql, field_names, exhausted, row_j>>
    ELSE FinishCollection(total_migrated + Len(batch),
                          total_migrated + Len(batch) # total_count)

\* insert_batch: the empty-batch return and BEGIN TRANSACTION
InsertBatchBegin ==
    /\ pc = "insert_batch"
    /\ IF batch = <<>>
       THEN AfterInsertBatch /\ UNCHANGED sink
       ELSE \E ok \in Outcomes(Verb("BEGIN TRANSACTION"), <<>>) :
              /\ Execute(Verb("BEGIN TRANSACTION"), <<>>, ok, idx)
              /\ IF ~ok THEN Fail /\ UNCHANGED locals
                 ELSE /\ pc' = "insert_row"
                      /\ row_j' = 1
                      /\ UNCHANGED <<idx, result, total_documents, returned,
                                     total_count, schema, insert_sql, field_names,
                                     batch, total_migrated, exhausted>>
    /\ UNCHANGED <<cfg, source, fvars>>

\* The loop over the batch taken from its end
InsertRowBackwards ==
    /\ pc = "insert_row"
    /\ LET values == batch[Len(batch) + 1 - row_j]
       IN  \E ok \in Outcomes(insert_sql, values) :
             /\ Execute(insert_sql, values, ok, idx)
             /\ IF ok
                THEN /\ row_j' = row_j + 1
                     /\ pc' = IF row_j + 1 > Len(batch) THEN "commit" ELSE "insert_row"
                ELSE /\ pc' = "rollback"
                     /\ UNCHANGED row_j
    /\ UNCHANGED <<cfg, idx, result, total_documents, returned, total_count,
                   schema, insert_sql, field_names, batch, total_migrated,
                   exhausted, source, fvars>>

\* insert_batch_inner: one iteration of the loop over the batch
InsertRow ==
    /\ pc = "insert_row"
    /\ \E ok \in Outcomes(insert_sql, batch[row_j]) :
         /\ Execute(insert_sql, batch[row_j], ok, idx)
         /\ IF ok
            THEN /\ row_j' = row_j + 1
                 /\ pc' = IF row_j + 1 > Len(batch) THEN "commit" ELSE "insert_row"
            ELSE /\ pc' = "rollback"
                 /\ UNCHANGED row_j
    /\ UNCHANGED <<cfg, idx, result, total_documents, returned, total_count,
                   schema, insert_sql, field_names, batch, total_migrated,
                   exhausted, source, fvars>>

\* COMMIT with its error dropped: the caller goes on.
CommitIgnoresError ==
    /\ pc = "commit"
    /\ \E ok \in Outcomes(Verb("COMMIT"), <<>>) :
         Execute(Verb("COMMIT"), <<>>, ok, idx)
    /\ AfterInsertBatch
    /\ UNCHANGED <<cfg, source, fvars>>

\* insert_batch: the Ok arm, COMMIT
Commit ==
    /\ pc = "commit"
    /\ \E ok \in Outcomes(Verb("COMMIT"), <<>>) :
         /\ Execute(Verb("COMMIT"), <<>>, ok, idx)
         /\ IF ok THEN AfterInsertBatch
            ELSE Fail /\ UNCHANGED locals
    /\ UNCHANGED <<cfg, source, fvars>>

\* The Err arm ending the transaction with COMMIT.
RollbackCommits ==
    /\ pc = "rollback"
    /\ \E ok \in Outcomes(Verb("COMMIT"), <<>>) :
         Execute(Verb("COMMIT"), <<>>, ok, idx)
    /\ Fail
    /\ UNCHANGED <<cfg, locals, source, fvars>>

\* insert_batch: the Err arm, ROLLBACK, then the error goes up
Rollback ==
    /\ pc = "rollback"
    /\ \E ok \in Outcomes(Verb("ROLLBACK"), <<>>) :
         Execute(Verb("ROLLBACK"), <<>>, ok, idx)
    /\ Fail
    /\ UNCHANGED <<cfg, locals, source, fvars>>

Next ==
    \/ Migrate
    \/ DropTable
    \/ MigrateSchemaSample
    \/ MigrateSchemaCreate
    \/ TruncateTable
    \/ CountDocuments
    \/ SampleDocuments
    \/ StreamDocuments
    \/ TryNext
    \/ InsertBatchBegin
    \/ InsertRow
    \/ Commit
    \/ Rollback

Spec == Init /\ [][Next]_vars

-----------------------------------------------------------------------------
(* cli.rs and main.rs: the arguments are validated, then the clients are
   connected and the migrator is run *)

\* Validation without the sample-size test
validate_without_sample_size(self) ==
    IF ~self.table /\ ~self.all_tables THEN Err
    ELSE IF self.batch_size = 0 THEN Err
    ELSE Ok(0)

\* Args::validate; table is whether --table was given
validate(self) ==
    IF ~self.table /\ ~self.all_tables THEN Err
    ELSE IF self.batch_size = 0 THEN Err
    ELSE IF self.sample_size = 0 THEN Err
    ELSE Ok(0)

\* What Args::parse accepts: --table and --all-tables conflict
ParsedArgs ==
    {a \in [table : BOOLEAN, all_tables : BOOLEAN,
            batch_size : 0..MaxArg, sample_size : 0..MaxArg] :
        ~(a.table /\ a.all_tables)}

InitMain ==
    /\ Idle
    /\ fn_pc = "validate"
    /\ fn_in \in ParsedArgs
    /\ fn_out = [validate |-> NoResult, connected |-> {}, result |-> NoResult]

\* main: args.validate()?
Validate ==
    /\ fn_pc = "validate"
    /\ LET r == validate(fn_in)
       IN  /\ fn_out' = [fn_out EXCEPT !.validate = r,
                                       !.result = IF r = Err THEN Err ELSE @]
           /\ fn_pc' = IF r = Err THEN "exit" ELSE "connect_mongodb"
    /\ UNCHANGED <<fn_in, mvars>>

\* run_migration: MongoClient::new(..).await?
ConnectMongo ==
    /\ fn_pc = "connect_mongodb"
    /\ \E ok \in BOOLEAN :
          IF ok
          THEN /\ fn_out' = [fn_out EXCEPT !.connected = @ \cup {"mongodb"}]
               /\ fn_pc' = "collections"
          ELSE /\ fn_out' = [fn_out EXCEPT !.result = Err]
               /\ fn_pc' = "exit"
    /\ UNCHANGED <<fn_in, mvars>>

\* run_migration: the collections to migrate; listing them may fail or
\* find none, a given table is taken as it is
GetCollections ==
    /\ fn_pc = "collections"
    /\ \E found \in (IF fn_in.all_tables THEN {"some", "none", "error"} ELSE {"some"}) :
          IF found = "some"
          THEN /\ fn_pc' = "connect_libsql"
               /\ UNCHANGED fn_out
          ELSE /\ fn_out' = [fn_out EXCEPT !.result = Err]
               /\ fn_pc' = "exit"
    /\ UNCHANGED <<fn_in, mvars>>

\* run_migration: LibSqlClient::new(..).await?
ConnectLibSql ==
    /\ fn_pc = "connect_libsql"
    /\ \E ok \in BOOLEAN :
          IF ok
          THEN /\ fn_out' = [fn_out EXCEPT !.connected = @ \cup {"libsql"}]
               /\ fn_pc' = "migrate"
          ELSE /\ fn_out' = [fn_out EXCEPT !.result = Err]
               /\ fn_pc' = "exit"
    /\ UNCHANGED <<fn_in, mvars>>

\* run_migration: migrator.migrate(..).await?, whose steps are Next
RunMigrator ==
    /\ fn_pc = "migrate"
    /\ \E r \in {Ok(0), Err} : fn_out' = [fn_out EXCEPT !.result = r]
    /\ fn_pc' = "exit"
    /\ UNCHANGED <<fn_in, mvars>>

NextMain ==
    \/ Validate
    \/ ConnectMongo
    \/ GetCollections
    \/ ConnectLibSql
    \/ RunMigrator

SpecMain == InitMain /\ [][NextMain]_vars

-----------------------------------------------------------------------------
(* Claims *)

\* ---- the statements of the log
LogOp(k) == log[k].stmt.op

IndicesOf(op) == {k \in 1..Len(log) : LogOp(k) = op}

\* The table of the i-th collection, as the statements name it
TableOf(i) == escape_identifier(Collections[i])

\* The rows of the i-th collection's table that this run committed
RunRows(i) ==
    IF TableOf(i) \in DOMAIN tables
    THEN SelectSeq(tables[TableOf(i)].rows, LAMBDA r : r \notin Range(OldTable.rows))
    ELSE <<>>

\* The rows the first n documents delivered for the collection in progress
\* convert to
FirstRows(n) ==
    [k \in 1..n |-> [columns |-> insert_sql.columns,
                     values |-> document_to_sql_values(delivered[idx][k], field_names)]]

FailedAt(op) == {k \in IndicesOf(op) : ~log[k].ok}

\* C1: once a row insert of a batch has failed, insert_batch issues ROLLBACK
\* and nothing else, the run ends with an error, the sink holds exactly the
\* rows of the collection's earlier batches and no row of the failed batch,
\* and after an accepted ROLLBACK no transaction is open and nothing pends.
C1_RowFailureRollsBack ==
    FailedAt("INSERT INTO") # {} =>
        LET k == CHOOSE i \in FailedAt("INSERT INTO") : TRUE
        IN  /\ pc \in {"rollback", "done"}
            /\ pc = "rollback" => Len(log) = k
            /\ pc = "done" =>
                 /\ result = Err
                 /\ Len(log) = k + 1
                 /\ LogOp(k + 1) = "ROLLBACK"
                 /\ log[k + 1].ok => (~in_tx /\ pending = <<>>)
            /\ RunRows(idx) = FirstRows(total_migrated)
            /\ total_migrated + Len(batch) = Len(delivered[idx])

\* C1 witness: the second row of the second batch of a collection failed,
\* the rollback went through and the error was returned.
C1_Witness ==
    /\ pc = "done"
    /\ FailedAt("INSERT INTO") # {}
    /\ log[Len(log)].ok
    /\ total_migrated = batch_size
    /\ row_j = 2
    /\ Len(RunRows(idx)) = batch_size

\* ---- the transactions of one collection
LogOf(i) == SelectSeq(log, LAMBDA e : e.coll = i)

\* The number of accepted row inserts of each committed transaction
RECURSIVE TxScan(_, _, _)
TxScan(entries, cur, acc) ==
    IF entries = <<>> THEN acc
    ELSE LET e == Head(entries)
         IN  CASE e.ok /\ e.stmt.op = "BEGIN TRANSACTION" -> TxScan(Tail(entries), 0, acc)
               [] e.ok /\ e.stmt.op = "INSERT INTO" -> TxScan(Tail(entries), cur + 1, acc)
               [] e.ok /\ e.stmt.op = "COMMIT" -> TxScan(Tail(entries), 0, Append(acc, cur))
               [] OTHER -> TxScan(Tail(entries), cur, acc)

TxSizes(i) == TxScan(LogOf(i), 0, <<>>)

Begins(i) == Len(SelectSeq(log, LAMBDA e : e.coll = i /\ e.stmt.op = "BEGIN TRANSACTION"))

\* C2: a collection whose migrate_collection_data returned Ok after its
\* cursor yielded N documents was written in exactly ceil(N/B) transactions:
\* floor(N/B) of B row inserts each, then one of N mod B when N mod B > 0;
\* none is empty.
C2_BatchSizes ==
    \A i \in 1..Len(returned) :
        LET N == Len(delivered[i])
            B == batch_size
            T == (N + B - 1) \div B
            sizes == TxSizes(i)
        IN  /\ Begins(i) = T
            /\ sizes = [k \in 1..T |-> IF k <= N \div B THEN B ELSE N % B]
            /\ \A k \in 1..Len(sizes) : sizes[k] > 0

\* C2 witness: a collection of 3 documents migrated with batch size 2 in
\* two transactions, a full one and the trailing one.
C2_Witness ==
    /\ batch_size = 2
    /\ \E i \in 1..Len(returned) :
         /\ Len(delivered[i]) = 3
         /\ TxSizes(i) = <<2, 1>>

\* A write error during a batch: BEGIN, a row insert or COMMIT was refused.
WriteFailed ==
    FailedAt("BEGIN TRANSACTION") \cup FailedAt("INSERT INTO") \cup FailedAt("COMMIT") # {}

\* C3: after a write error in a batch the run only rolls back and returns an
\* error: no document is read, no call goes to the source, no collection is
\* started or finished, the committed tables stay as they are, and migrate
\* returns Err.
C3_WriteErrorIsFatal ==
    /\ [](WriteFailed =>
            /\ pc \in {"rollback", "done"}
            /\ pc = "done" => result = Err)
    /\ [][WriteFailed =>
            /\ delivered' = delivered
            /\ src_calls' = src_calls
            /\ tables' = tables
            /\ idx' = idx
            /\ returned' = returned
            /\ total_documents' = total_documents
            /\ \/ log' = log
               \/ /\ log' = Append(log, log'[Len(log')])
                  /\ log'[Len(log')].stmt.op = "ROLLBACK"]_vars

\* C3 witness: the first collection's second batch failed at COMMIT; the run
\* ended with an error, the first batch is committed, the second collection
\* was never started.
C3_Witness ==
    /\ pc = "done"
    /\ result = Err
    /\ FailedAt("COMMIT") # {}
    /\ idx = 1
    /\ total_migrated > 0
    /\ Len(RunRows(1)) = total_migrated
    /\ \A k \in 1..Len(src_calls) : src_calls[k].coll = 1

\* The phase a statement belongs to
PhaseOf(op) ==
    CASE op = "DROP TABLE IF EXISTS" -> 1
      [] op = "CREATE TABLE IF NOT EXISTS" -> 2
      [] op = "DELETE FROM" -> 3
      [] OTHER -> 4

\* C4: the statements of a run come in the order drop, schema, truncate,
\* data, so every DROP TABLE precedes every CREATE TABLE and every CREATE
\* TABLE and DELETE FROM precedes every row insert; and when a statement of
\* a later phase follows one of an earlier phase, the earlier phase has
\* issued its statement for every collection, in order.
C4_PhaseOrder ==
    \A k \in 1..(Len(log) - 1) :
        LET p == PhaseOf(LogOp(k))
        IN  /\ p <= PhaseOf(LogOp(k + 1))
            /\ p < PhaseOf(LogOp(k + 1)) =>
                 /\ k >= NumCollections
                 /\ \A j \in 1..NumCollections :
                      /\ PhaseOf(LogOp(k - NumCollections + j)) = p
                      /\ log[k - NumCollections + j].coll = j

\* C4 witness: a run that dropped and created every table and then inserted
\* a row.
C4_Witness ==
    /\ Cardinality(IndicesOf("DROP TABLE IF EXISTS")) = NumCollections
    /\ Cardinality(IndicesOf("CREATE TABLE IF NOT EXISTS")) = NumCollections
    /\ IndicesOf("INSERT INTO") # {}

\* C5: CREATE TABLE only in Full or SchemaOnly mode; transactions and row
\* inserts only in Full or DataOnly mode; DROP TABLE only with drop_tables
\* set in Full or SchemaOnly mode; DELETE FROM only with truncate set in
\* DataOnly mode.
C5_PhaseSelection ==
    /\ IndicesOf("CREATE TABLE IF NOT EXISTS") # {} => mode \in {"Full", "SchemaOnly"}
    /\ IndicesOf("INSERT INTO") # {} => mode \in {"Full", "DataOnly"}
    /\ IndicesOf("BEGIN TRANSACTION") # {} => mode \in {"Full", "DataOnly"}
    /\ IndicesOf("DROP TABLE IF EXISTS") # {}
          => (drop_tables /\ mode \in {"Full", "SchemaOnly"})
    /\ IndicesOf("DELETE FROM") # {} => (truncate /\ mode = "DataOnly")

\* C5 witness: a finished DataOnly run with both flags set that truncated,
\* inserted rows and dropped nothing.
C5_Witness ==
    /\ mode = "DataOnly" /\ drop_tables /\ truncate
    /\ pc = "done" /\ result.kind = "Ok"
    /\ Cardinality(IndicesOf("DELETE FROM")) = NumCollections
    /\ IndicesOf("INSERT INTO") # {}
    /\ IndicesOf("DROP TABLE IF EXISTS") = {}

\* C6: a step of the drop or truncate phase issues the statement for the
\* collection at hand and, whatever its outcome, reports no error and moves
\* on: to the next collection, or after the last one to the next phase.
C6_DropTruncateFailuresSwallowed ==
    [][(pc = "drop_tables" \/ pc = "truncate_tables") =>
         /\ log' = Append(log, log'[Len(log')])
         /\ log'[Len(log')].stmt =
              (IF pc = "drop_tables" THEN drop_table_sql(Collections[idx])
               ELSE delete_from_sql(Collections[idx]))
         /\ result' = NoResult
         /\ IF idx < NumCollections
            THEN pc' = pc /\ idx' = idx + 1
            ELSE /\ idx' = 1
                 /\ pc' = (IF pc = "drop_tables" THEN "migrate_schema"
                           ELSE "count_documents")]_vars

\* C6 witness: the first DROP TABLE was refused, the second was still issued
\* and the schema phase created a table.
C6_Witness ==
    /\ Len(log) > NumCollections
    /\ LogOp(1) = "DROP TABLE IF EXISTS" /\ ~log[1].ok
    /\ LogOp(2) = "DROP TABLE IF EXISTS"
    /\ IndicesOf("CREATE TABLE IF NOT EXISTS") # {}

\* The row inserts issued for the i-th collection, in the order of issue
InsertsOf(i) ==
    SelectSeq(log, LAMBDA e : e.coll = i /\ e.stmt.op = "INSERT INTO")

\* The rows of the batch in hand, as the sink stores them
BatchRows ==
    [j \in 1..Len(batch) |-> [columns |-> insert_sql.columns, values |-> batch[j]]]

\* C15: one transaction at a time, one collection at a time, rows in stream
\* order. No transaction is open outside insert_batch. In every step: a
\* BEGIN is issued only while no transaction is open; a statement of the
\* data phase and a call to the source are for the collection in hand; the
\* collection in hand changes only to the next one, when the one in hand
\* has returned with no transaction open, or to the first at a change of
\* phase; the row insert issued is for the next document of the stream, in
\* the order of delivery; and an accepted COMMIT adds the rows of the batch
\* to the collection's table in that order.
C15_OneTransactionInOrder ==
    /\ [](pc \notin {"insert_row", "commit", "rollback", "done"} =>
            (~in_tx /\ pending = <<>>))
    /\ [][/\ log' # log =>
               LET e == log'[Len(log')]
               IN  /\ log' = Append(log, e)
                   /\ e.coll = idx
                   /\ e.stmt.op = "BEGIN TRANSACTION" => ~in_tx
                   /\ e.stmt.op = "INSERT INTO" =>
                        /\ in_tx \/ ~e.ok
                        /\ total_migrated + row_j <= Len(delivered[idx])
                        /\ e.params = document_to_sql_values(
                                         delivered[idx][total_migrated + row_j], field_names)
                        /\ e.ok => pending' = Append(pending,
                                      [table |-> TableOf(idx),
                                       row |-> [columns |-> insert_sql.columns,
                                                values |-> e.params]])
                   /\ (e.stmt.op = "COMMIT" /\ e.ok) =>
                        /\ \A i \in {idx} : RunRows(i)' = RunRows(i) \o BatchRows
                        /\ Len(pending) = Len(batch)
          /\ src_calls' # src_calls =>
               /\ src_calls' = Append(src_calls, src_calls'[Len(src_calls')])
               /\ src_calls'[Len(src_calls')].coll = idx
          /\ idx' # idx =>
               \/ /\ idx' = idx + 1
                  /\ ~in_tx'
                  /\ pc \in {"count_documents", "try_next", "commit"} =>
                        /\ Len(returned') = idx
                        /\ pc' = "count_documents"
               \/ idx' = 1 /\ pc' # pc]_vars

\* C15 witness: the first collection went through in two transactions; the
\* second has one batch committed and the first row of its next batch
\* pending in an open transaction.
C15_Witness ==
    /\ idx = 2
    /\ Len(TxSizes(1)) = 2
    /\ Len(RunRows(2)) = 2
    /\ in_tx
    /\ Len(pending) = 1
    /\ Len(InsertsOf(2)) = 3

\* The rows this run committed, over all collections
RECURSIVE CommittedUpTo(_)
CommittedUpTo(i) == IF i = 0 THEN 0 ELSE Len(RunRows(i)) + CommittedUpTo(i - 1)

\* C16: when migrate returns Ok(n), n is the number of rows this run
\* committed to the sink, summed over the collections; in SchemaOnly mode n
\* is 0.
C16_ReturnIsCommittedRows ==
    (pc = "done" /\ result.kind = "Ok") =>
        /\ result.n = CommittedUpTo(NumCollections)
        /\ mode = "SchemaOnly" => result.n = 0

\* C16 witness: a successful run that committed rows for both collections,
\* more than one for the first.
C16_Witness ==
    /\ pc = "done" /\ result.kind = "Ok"
    /\ Len(RunRows(1)) > 1
    /\ Len(RunRows(2)) > 0
    /\ result.n = Len(RunRows(1)) + Len(RunRows(2))

\* The step after which nothing of the collection in hand is left to do:
\* the cursor returns None with no row unflushed, or the trailing batch
\* is committed.
StreamDone ==
    \/ /\ pc = "try_next"
       /\ src_calls' = Called("try_next", idx, TRUE)
       /\ delivered' = delivered
       /\ batch = <<>>
    \/ /\ pc = "commit"
       /\ exhausted
       /\ log' = Append(log, [stmt |-> Verb("COMMIT"), params |-> <<>>,
                              ok |-> TRUE, coll |-> idx])

\* What follows the return of the collection in hand: the next collection,
\* or after the last the end of the run with the sum
NextCollectionOrEnd(n) ==
    /\ total_documents' = total_documents + n
    /\ IF idx < NumCollections
       THEN idx' = idx + 1 /\ pc' = "count_documents" /\ result' = NoResult
       ELSE pc' = "done" /\ result' = Ok(total_documents + n)

\* C17: when the cursor of a collection is exhausted, migrate_collection_data
\* returns Ok with the number of documents the cursor delivered, whether or
\* not that number equals the count fetched before (a difference is only
\* logged), and the run goes on with the next collection.
C17_CountMismatchIsSuccess ==
    [][StreamDone =>
          LET n == Len(delivered[idx])
          IN  /\ returned' = Append(returned, [n |-> n, warned |-> n # total_count])
              /\ \A i \in {idx} : n = Len(RunRows(i)')
              /\ NextCollectionOrEnd(n)]_vars

\* C17 witness: the first collection delivered more documents than counted,
\* the second fewer; both returned Ok and the run succeeded.
C17_Witness ==
    /\ pc = "done" /\ result.kind = "Ok"
    /\ returned = <<[n |-> MaxDocs, warned |-> TRUE], [n |-> 1, warned |-> TRUE]>>

\* C18: when count_documents returns zero in the data phase, the collection
\* returns Ok(0) in that same step: no sample, no cursor, no statement, no
\* document and no change to the sink; the run goes on with the next
\* collection.
C18_ZeroCountSkipsCollection ==
    [][(/\ pc = "count_documents"
        /\ src_calls' = Called("count_documents", idx, TRUE)
        /\ total_count' = 0) =>
          /\ returned' = Append(returned, [n |-> 0, warned |-> FALSE])
          /\ UNCHANGED <<log, tables, in_tx, pending, delivered>>
          /\ NextCollectionOrEnd(0)]_vars

\* C18 witness: the first collection counted zero; the only call made for it
\* is count_documents and the run is at the second collection.
C18_Witness ==
    /\ mode = "DataOnly"
    /\ returned = <<[n |-> 0, warned |-> FALSE]>>
    /\ src_calls = <<[op |-> "count_documents", coll |-> 1, ok |-> TRUE]>>
    /\ log = <<>>
    /\ idx = 2 /\ pc = "count_documents"

\* C19: the batch in memory never holds more than batch_size rows, it is
\* below batch_size whenever the cursor is read, and it is empty right after
\* the flush of a full batch.
C19_BatchBounded ==
    /\ [](/\ Len(batch) <= batch_size
          /\ pc = "try_next" => Len(batch) < batch_size)
    /\ [][(pc = "commit" /\ pc' = "try_next") =>
            (Len(batch) = batch_size /\ batch' = <<>>)]_vars

\* C19 witness: a full batch of two rows was flushed and the batch is empty
\* again, the cursor about to be read.
C19_Witness ==
    /\ batch_size = 2
    /\ pc = "try_next"
    /\ total_migrated = 2
    /\ batch = <<>>
    /\ LogOp(Len(log)) = "COMMIT"

\* A quoted identifier: a double quote at each end and between them double
\* quotes only in pairs
RECURSIVE QuotesPaired(_)
QuotesPaired(str) ==
    IF str = <<>> THEN TRUE
    ELSE IF Head(str) # 34 THEN QuotesPaired(Tail(str))
    ELSE Len(str) >= 2 /\ str[2] = 34 /\ QuotesPaired(Tail(Tail(str)))

\* The name a quoted identifier stands for: the ends dropped, each pair of
\* double quotes read as one
RECURSIVE Undouble(_)
Undouble(str) ==
    IF str = <<>> THEN <<>>
    ELSE IF Head(str) = 34 /\ Len(str) >= 2
         THEN <<34>> \o Undouble(Tail(Tail(str)))
         ELSE <<Head(str)>> \o Undouble(Tail(str))

QuotedAs(quoted, name) ==
    /\ Len(quoted) >= 2
    /\ quoted[1] = 34 /\ quoted[Len(quoted)] = 34
    /\ QuotesPaired(SubSeq(quoted, 2, Len(quoted) - 1))
    /\ Undouble(SubSeq(quoted, 2, Len(quoted) - 1)) = name

\* C20: the table name of the DROP TABLE, DELETE FROM, CREATE TABLE and
\* INSERT statements and the column names of the last two are the name
\* wrapped in double quotes with each double quote inside doubled; the name
\* can be read back from the quoted form, so no other name has the same
\* quoted form; and DROP TABLE and DELETE FROM quote as escape_identifier
\* does.
C20_IdentifiersQuoted ==
    fn_pc = "done" =>
        /\ QuotedAs(fn_out.escaped, fn_in.table)
        /\ fn_out.drop.table = fn_out.escaped
        /\ fn_out.delete.table = fn_out.escaped
        /\ fn_out.create.table = fn_out.escaped
        /\ fn_out.insert.table = fn_out.escaped
        /\ fn_out.create.columns = fn_out.insert.columns
        /\ Len(fn_out.insert.columns) = 1
        /\ QuotedAs(fn_out.insert.columns[1], fn_in.column)
        /\ \A other \in QuoteNames :
             other # fn_in.table => escape_identifier(other) # fn_out.escaped
        /\ fn_in.table = <<97, 34, 98>> => fn_out.escaped = <<34, 97, 34, 34, 98, 34>>

\* C20 witness: the table a"b and the column "a have been quoted.
C20_Witness ==
    /\ fn_pc = "done"
    /\ fn_in.table = <<97, 34, 98>>
    /\ fn_in.column = <<34, 97>>
    /\ fn_out.drop.table = <<34, 97, 34, 34, 98, 34>>
    /\ fn_out.insert.columns = <<<<34, 34, 34, 97, 34>>>>

\* C21: the insert statement of a schema has as many placeholders as the
\* schema has columns and lists the quoted column names in the order of
\* field_names(): its i-th column is the quoted i-th field name.
C21_InsertMatchesFieldNames ==
    fn_pc = "done" =>
        /\ fn_out.insert.placeholders = Len(fn_in.fields)
        /\ Len(fn_out.insert.columns) = Len(fn_in.fields)
        /\ Len(fn_out.field_names) = Len(fn_in.fields)
        /\ \A i \in 1..Len(fn_in.fields) :
             /\ fn_out.field_names[i] = fn_in.fields[i].name
             /\ QuotedAs(fn_out.insert.columns[i], fn_out.field_names[i])

\* C21 witness: a schema of two columns with different names, the second
\* holding a double quote.
C21_Witness ==
    /\ fn_pc = "done"
    /\ fn_out.field_names = <<ID, QUOTED>>
    /\ fn_out.insert.placeholders = 2
    /\ fn_out.insert.columns = <<<<34, 95, 105, 100, 34>>, <<34, 97, 34, 34, 98, 34>>>>

\* C22: the CREATE TABLE statement has one definition per column in schema
\* order: the quoted name, the storage class, then PRIMARY KEY exactly when
\* the column is the primary key and NOT NULL exactly when it is neither
\* nullable nor the primary key; never both.
C22_CreateTableSuffixes ==
    fn_pc = "done" =>
        /\ Len(fn_out.create.defs) = Len(fn_in.fields)
        /\ Len(fn_out.create.columns) = Len(fn_in.fields)
        /\ \A i \in 1..Len(fn_in.fields) :
             LET f == fn_in.fields[i]
                 def == fn_out.create.defs[i]
             IN  /\ QuotedAs(fn_out.create.columns[i], f.name)
                 /\ def[1] = f.sql_type
                 /\ "PRIMARY KEY" \in Range(Tail(def)) <=> f.is_primary_key
                 /\ "NOT NULL" \in Range(Tail(def)) <=> (~f.nullable /\ ~f.is_primary_key)
                 /\ Len(def) <= 2

\* C22 witness: a non-nullable primary key followed by a non-nullable
\* column that is not the key.
C22_Witness ==
    /\ fn_pc = "done"
    /\ Len(fn_in.fields) = 2
    /\ fn_in.fields[1].is_primary_key /\ ~fn_in.fields[1].nullable
    /\ ~fn_in.fields[2].is_primary_key /\ ~fn_in.fields[2].nullable
    /\ fn_out.create.defs = <<<<"TEXT", "PRIMARY KEY">>, <<"INTEGER", "NOT NULL">>>>

\* C23: every value is classified, by its tag alone, as exactly one of the
\* five storage classes: Double as REAL; Binary as BLOB; Boolean, Int32,
\* Int64, Timestamp as INTEGER; Null, Undefined, DbPointer as NULL; every
\* other tag as TEXT.
C23_ClassificationTotal ==
    fn_pc = "done" =>
        /\ fn_out.sql_type \in SqlTypes
        /\ fn_out.sql_type = "REAL" <=> fn_in.tag = "Double"
        /\ fn_out.sql_type = "BLOB" <=> fn_in.tag = "Binary"
        /\ fn_out.sql_type = "INTEGER" <=>
              fn_in.tag \in {"Boolean", "Int32", "Int64", "Timestamp"}
        /\ fn_out.sql_type = "NULL" <=> fn_in.tag \in {"Null", "Undefined", "DbPointer"}
        /\ \A other \in BsonValues :
              other.tag = fn_in.tag => infer_sqlite_type(other) = fn_out.sql_type

\* C23 witness: a Binary value that serde_json cannot serialize is still
\* classified, as BLOB.
C23_Witness ==
    /\ fn_pc = "done"
    /\ fn_in.tag = "Binary" /\ ~fn_in.ok
    /\ fn_out.sql_type = "BLOB"

\* C24: every value converts to a Null, Integer, Real or Text value: a
\* String to the same text, Int32 and Int64 to the same integer, Boolean to
\* 1 or 0, a Timestamp to its time component, Null, Undefined and DbPointer
\* to Null, and a value whose serialization fails to Null.
C24_ConversionTotal ==
    fn_pc = "done" =>
        LET tag == fn_in.tag
            out == fn_out.value
        IN  /\ out.kind \in {"Null", "Integer", "Real", "Text"}
            /\ tag = "String" => out = [kind |-> "Text", fmt |-> "", v |-> fn_in.v, w |-> 0]
            /\ tag \in {"Int32", "Int64", "Timestamp"} =>
                  (out.kind = "Integer" /\ out.v = fn_in.v)
            /\ tag = "Boolean" =>
                  (out.kind = "Integer" /\ out.v = IF fn_in.b THEN 1 ELSE 0)
            /\ tag \in {"Null", "Undefined", "DbPointer"} => out.kind = "Null"
            /\ (tag \in {"Document", "Array", "Binary"} /\ ~fn_in.ok) => out.kind = "Null"
            /\ (tag \in {"Document", "Array", "Binary"} /\ fn_in.ok) => out.kind = "Text"

\* C24 witness: a Document that serde_json cannot serialize has become Null.
C24_Witness ==
    /\ fn_pc = "done"
    /\ fn_in.tag = "Document" /\ ~fn_in.ok
    /\ fn_out.value = SqlNull

\* C25: validation fails exactly when neither a table nor all tables is
\* selected, or the batch size is 0, or the sample size is 0; after a failed
\* validation the program has ended and no connection to the source or to
\* the sink has been opened.
C25_ValidateBeforeConnect ==
    fn_pc # "validate" =>
        /\ fn_out.validate \in {Ok(0), Err}
        /\ fn_out.validate = Err <=>
              \/ ~fn_in.table /\ ~fn_in.all_tables
              \/ fn_in.batch_size = 0
              \/ fn_in.sample_size = 0
        /\ fn_out.validate = Err =>
              /\ fn_pc = "exit"
              /\ fn_out.connected = {}
              /\ fn_out.result = Err

\* C25 witness: a table and a positive batch size were given with a sample
\* size of 0, and the program has ended with an error and no connection.
C25_Witness ==
    /\ fn_pc = "exit"
    /\ fn_in.table /\ fn_in.batch_size > 0 /\ fn_in.sample_size = 0
    /\ fn_out.validate = Err
    /\ fn_out.connected = {}

\* C26: whenever insert_batch has returned, with success or with an error,
\* no transaction is open on the sink, whatever the outcomes of BEGIN, of
\* the row inserts, of COMMIT and of ROLLBACK were.
C26_NoTransactionLeftOpen ==
    pc \notin {"insert_row", "commit", "rollback"} => ~in_tx

\* C27: in a full run, while a collection's data is being copied, the
\* column list of its insert template equals the column list of the CREATE
\* TABLE statement executed for that collection in the schema phase.
C27_InsertColumnsAreCreatedColumns ==
    (mode = "Full" /\ pc \in {"stream_documents", "try_next", "insert_batch",
                              "insert_row", "commit", "rollback"}) =>
        \A c \in IndicesOf("CREATE TABLE IF NOT EXISTS") :
            TableOf(c) = insert_sql.table =>
                log[c].stmt.columns = insert_sql.columns

\* C28: two invocations of infer_schema on the same collection name and
\* the same sample return identical schemas, also when a field's NULL
\* observations strictly outnumber each of two non-NULL classes.
C28_InferSchemaDeterministic ==
    fn_pc = "done" => fn_out.first = fn_out.second

\* ---- a failed read of the cursor
StreamReadFailed ==
    /\ src_calls # <<>>
    /\ LET last == src_calls[Len(src_calls)]
       IN  last.op = "try_next" /\ ~last.ok

\* C29: when reading the next document of a collection's cursor fails, the
\* error is returned in that same step: no statement goes to the sink, so no
\* transaction is opened for the rows accumulated in the batch and they are
\* not written; the rows of the batches committed before stay in the table;
\* the run has ended with an error and nothing more is asked of the source,
\* so no later collection is processed.
C29_StreamFailureWritesNothing ==
    /\ [][(pc = "try_next" /\ src_calls' = Called("try_next", idx, FALSE)) =>
            /\ pc' = "done"
            /\ result' = Err
            /\ log' = log
            /\ tables' = tables
            /\ ~in_tx /\ in_tx' = in_tx
            /\ pending' = pending
            /\ returned' = returned
            /\ RunRows(idx) = FirstRows(total_migrated)]_vars
    /\ [](StreamReadFailed => (pc = "done" /\ result = Err /\ ~in_tx))
    /\ [][StreamReadFailed => (tables' = tables /\ log' = log /\ src_calls' = src_calls)]_vars

\* C29 witness: with batches of two, the first collection's cursor failed
\* after three documents: the first two rows are committed, the third was
\* accumulated and is not in the table, and the run has ended with an error
\* before the second collection.
C29_Witness ==
    /\ StreamReadFailed
    /\ pc = "done" /\ result = Err
    /\ idx = 1 /\ batch_size = 2
    /\ Len(batch) = 1 /\ total_migrated = 2
    /\ Len(RunRows(1)) = 2
    /\ returned = <<>>

\* ---- a failure in the schema phase of a full run: the sampling failed
\* before any count was asked, or a CREATE TABLE statement failed
SchemaPhaseFailed ==
    /\ mode = "Full"
    /\ \/ FailedAt("CREATE TABLE IF NOT EXISTS") # {}
       \/ /\ src_calls # <<>>
          /\ src_calls[Len(src_calls)] =
                [op |-> "sample_documents", coll |-> src_calls[Len(src_calls)].coll,
                 ok |-> FALSE]
          /\ \A k \in 1..Len(src_calls) : src_calls[k].op = "sample_documents"

\* C30: in a full run, once the sampling or the CREATE TABLE statement of a
\* collection has failed in the schema phase, migrate has returned an error:
\* no CREATE TABLE was or will be issued for a later collection, the data
\* phase does not start (no count, no cursor), no transaction is begun and
\* no row is inserted.
C30_SchemaFailureStopsRun ==
    /\ [](SchemaPhaseFailed =>
            /\ pc = "done" /\ result = Err
            /\ \A k \in 1..Len(log) :
                  /\ LogOp(k) \in {"DROP TABLE IF EXISTS", "CREATE TABLE IF NOT EXISTS"}
                  /\ LogOp(k) = "CREATE TABLE IF NOT EXISTS" =>
                        /\ log[k].coll <= src_calls[Len(src_calls)].coll
                        /\ ~log[k].ok => k = Len(log)
            /\ \A k \in 1..Len(src_calls) :
                  /\ src_calls[k].op = "sample_documents"
                  /\ ~src_calls[k].ok => k = Len(src_calls)
            /\ ~in_tx /\ pending = <<>>
            /\ total_documents = 0 /\ returned = <<>>)
    /\ [][SchemaPhaseFailed =>
            (log' = log /\ src_calls' = src_calls /\ tables' = tables)]_vars

\* C30 witness: a full run that dropped both tables, then failed on the
\* first collection's CREATE TABLE: it has ended with an error, no table
\* exists, and nothing was asked of the source but the one sample.
C30_Witness ==
    /\ mode = "Full" /\ drop_tables
    /\ pc = "done" /\ result = Err
    /\ FailedAt("CREATE TABLE IF NOT EXISTS") = {Len(log)}
    /\ log[Len(log)].coll = 1
    /\ DOMAIN tables = {}
    /\ Len(src_calls) = 1

\* C7: document_to_sql_values(d, s.field_names()) has exactly one value per
\* column of s; position i is the converted value of column i's field when d
\* has that field and NULL when d lacks it; keys of d that are no column of s
\* add nothing.
C7_RowMatchesColumns ==
    fn_pc = "done" =>
        LET names == schema_field_names(fn_in.schema)
            d == fn_in.doc
        IN  /\ Len(fn_out) = Len(fn_in.schema.fields)
            /\ \A i \in 1..Len(names) :
                 /\ names[i] \in DOMAIN d => fn_out[i] = bson_to_sql_value(d[names[i]])
                 /\ names[i] \notin DOMAIN d => fn_out[i] = SqlNull

\* C7 witness: a converted document that lacks one column's field, has
\* another column's field with a non-null value, and has a key that is no
\* column of the schema.
C7_Witness ==
    /\ fn_pc = "done"
    /\ LET names == schema_field_names(fn_in.schema)
           cols == {names[i] : i \in 1..Len(names)}
       IN  /\ \E i \in 1..Len(names) : names[i] \notin DOMAIN fn_in.doc
           /\ \E i \in 1..Len(names) :
                names[i] \in DOMAIN fn_in.doc /\ fn_out[i] # SqlNull
           /\ \E k \in DOMAIN fn_in.doc : k \notin cols

\* The field names observed in a sample
Observed(documents) == UNION {DOMAIN documents[i] : i \in 1..Len(documents)}

\* The rearrangements of a sequence
Rearrangements(seq) ==
    {[i \in 1..Len(seq) |-> seq[p[i]]] : p \in IterOrders(1..Len(seq))}

\* C11: the schema inferred from a non-empty sample has exactly one column
\* per observed field name (none twice, none unobserved), its columns other
\* than _id are in ascending name order, and the column names come out the
\* same for every rearrangement of the sample's documents and every order in
\* which a document's fields are visited.
C11_ColumnsAreObservedSorted ==
    (fn_pc = "done" /\ fn_in.documents # <<>>) =>
        LET docs == fn_in.documents
            names == schema_field_names(fn_out)
        IN  /\ Range(names) = Observed(docs)
            /\ \A i, j \in 1..Len(names) : i # j => names[i] # names[j]
            /\ \A i, j \in 1..Len(names) :
                 (i < j /\ names[i] # ID /\ names[j] # ID) => NameLess(names[i], names[j])
            /\ \A q \in Rearrangements(docs) : \A o \in HashOrders(q) :
                 schema_field_names(infer_schema(USERS, q, o)) = names
            /\ \A k \in 1..Len(docs) :
                 LET before == RecordDocs(<<>>, SubSeq(docs, 1, k - 1))
                 IN  \A iter \in IterOrders(DOMAIN docs[k]) :
                       RecordDocIter(before, docs[k], iter)
                         = RecordDoc(before, docs[k], DOMAIN docs[k])

\* C11 witness: two documents with different fields, the later-sorted name
\* seen first, give the columns _id, age, name.
C11_Witness ==
    /\ fn_pc = "done"
    /\ Len(fn_in.documents) = 2
    /\ DOMAIN fn_in.documents[1] = {ID, NAME}
    /\ DOMAIN fn_in.documents[2] = {ID, AGE}
    /\ schema_field_names(fn_out) = <<ID, AGE, NAME>>

C13_NullableIffMissing ==
    fn_pc = "done" =>
        \A i \in 1..Len(fn_out.fields) :
            fn_out.fields[i].name # ID =>
                (fn_out.fields[i].nullable <=>
                    \E k \in 1..Len(fn_in.documents) :
                        fn_out.fields[i].name \notin DOMAIN fn_in.documents[k])

\* C14: the schema inferred from an empty sample has exactly one column:
\* _id, TEXT, primary key, not nullable.
C14_EmptySampleSchema ==
    (fn_pc = "done" /\ fn_in.documents = <<>>) =>
        /\ fn_out.collection_name = USERS
        /\ fn_out.fields = <<Field(ID, "TEXT", FALSE, TRUE)>>

\* C14 witness: infer_schema has returned for the empty sample.
C14_Witness ==
    /\ fn_pc = "done"
    /\ fn_in.documents = <<>>
    /\ Len(fn_out.fields) = 1

\* C8: for every sample, the inferred schema's first column is _id, TEXT,
\* primary key, not nullable, and no other column is a primary key.
C8_IdFirstTextPrimaryKey ==
    fn_pc = "done" =>
        /\ Len(fn_out.fields) >= 1
        /\ fn_out.fields[1] = Field(ID, "TEXT", FALSE, TRUE)
        /\ \A i \in 2..Len(fn_out.fields) : ~fn_out.fields[i].is_primary_key

\* The classes with the highest count among those observed
MaxClasses(tc) == {t \in DOMAIN tc : \A u \in DOMAIN tc : tc[u] <= tc[t]}

\* The earliest class of a set in the order INTEGER, REAL, TEXT, BLOB, NULL
Earliest(S) ==
    type_priority[CHOOSE i \in 1..Len(type_priority) :
                    /\ type_priority[i] \in S
                    /\ \A j \in 1..(i - 1) : type_priority[j] \notin S]

\* C9 as stated: the chosen class is the earliest, in the priority order, of
\* the classes with the highest observation count.
C9_PluralityWithPriority ==
    (fn_pc = "done" /\ DOMAIN fn_in.info.type_counts # {}) =>
        fn_out.most_common_type = Earliest(MaxClasses(fn_in.info.type_counts))

\* C9 amended: the chosen class is the earliest of the classes with the
\* highest count, unless that class is NULL and a non-NULL class was observed
\* too; then a non-NULL observed class is chosen.
C9_PluralityUnlessNullWins ==
    (fn_pc = "done" /\ DOMAIN fn_in.info.type_counts # {}) =>
        LET tc == fn_in.info.type_counts
            win == Earliest(MaxClasses(tc))
        IN  IF win = "NULL" /\ DOMAIN tc # {"NULL"}
            THEN fn_out.most_common_type \in DOMAIN tc \ {"NULL"}
            ELSE fn_out.most_common_type = win

\* C9 witness: INTEGER and REAL tie at the highest count and INTEGER is chosen.
C9_Witness ==
    /\ fn_pc = "done"
    /\ {"INTEGER", "REAL"} \subseteq MaxClasses(fn_in.info.type_counts)
    /\ fn_in.info.type_counts["INTEGER"] = MaxCount
    /\ fn_out.most_common_type = "INTEGER"

\* C10: a field observed with at least one non-NULL class is never declared
\* NULL: the chosen class is a non-NULL class observed for the field, also
\* when NULL has the strictly highest count.
C10_NeverNullWhenTyped ==
    (fn_pc = "done" /\ DOMAIN fn_in.info.type_counts \ {"NULL"} # {}) =>
        /\ fn_out.most_common_type # "NULL"
        /\ fn_out.most_common_type \in DOMAIN fn_in.info.type_counts

\* C10 witness: NULL has the strictly highest count, TEXT was observed once,
\* and the field is declared TEXT.
C10_Witness ==
    /\ fn_pc = "done"
    /\ DOMAIN fn_in.info.type_counts = {"NULL", "TEXT"}
    /\ fn_in.info.type_counts["NULL"] = MaxCount
    /\ fn_in.info.type_counts["TEXT"] = 1
    /\ fn_out.most_common_type = "TEXT"

====
